---- MODULE Spec2Model ----
(***************************************************************************)
(* A model of m3u-emu: the media classifier (types.rs), the directory      *)
(* scanner (scanner.rs), the grouper and the text-file check (m3u.rs) and  *)
(* the two run modes with their playlist cleanup (main.rs).                *)
(*                                                                         *)
(* Strings that the code inspects character by character (file extensions) *)
(* are sequences of one-character strings.  A disc number (f32 in the      *)
(* code) is kept as an integer number of tenths: 21 stands for 2.1.        *)
(***************************************************************************)
EXTENDS Integers, Sequences, FiniteSets, TLC

VARIABLES
    pc,         \* where the modelled call or run stands
    ext,        \* the argument of MediaType::from_extension
    extResult,  \* its result, "pending" before the call
    bytes,      \* the content fs::read returns inside is_text_file
    infer,      \* what infer::get answers for that content
    textResult, \* the result of is_text_file, "pending" before the call
    gInput,     \* the files handed to group_files
    gForce,     \* its force_disc_mode argument
    gOutput,    \* the Vec<GameSet> it returns, empty before the call
    dirEntries, \* the entries fs::read_dir yields for one scanned directory
    scanResult, \* the result of scan_directory, Ok(empty) before the call
    scanForce,  \* cli.force of the run that scans that directory
    scanGroups, \* group_files(files, cli.force) of the scan result
    token,      \* the argument of extract_number
    number,     \* its result, none before the call
    cli,        \* the parsed command line: children, destination, force, relative
    src,        \* the media entries of each directory under the target
    childOf,    \* the top-level directory of the target each directory lies in
    fs,         \* the other files of each directory: playlists and the like
    fs0,        \* fs as it was before the run
    destDirs,   \* the subdirectories of the destination that exist
    queue,      \* the directories (children, in children mode) still to visit
    dirs,       \* children mode: the directories of the child still to scan
    found,      \* files: the media files of the directory being processed
    pending,    \* groups: the GameSets of that directory still to be written
    m3u_dir,    \* the directory the playlists are written to
    total_m3us, \* the count the run reports
    cleaned,    \* the directories for which check_and_clean_m3us returned Ok
    warnings,   \* the warnings printed, as [dir, cause]
    errorMsg,   \* the cause of the error the run ended with, "" if none
    exit        \* the exit code, -1 while the run goes on

extVars   == <<ext, extResult>>
textVars  == <<bytes, infer, textResult>>
groupVars == <<gInput, gForce, gOutput>>
scanVars  == <<dirEntries, scanResult, scanForce, scanGroups>>
parseVars == <<token, number>>

runVars   == <<cli, src, childOf, fs, fs0, destDirs, queue, dirs, found, pending,
               m3u_dir, total_m3us, cleaned, warnings, errorMsg, exit>>

vars == <<pc, extVars, textVars, groupVars, scanVars, parseVars, runVars>>

Pending == "pending"

(***************************************************************************)
(* types.rs                                                                *)
(***************************************************************************)

Floppy    == "Floppy"
DiscIndex == "DiscIndex"
DiscImage == "DiscImage"
None      == "None"

MediaType == {Floppy, DiscIndex, DiscImage}

FLOPPY_EXTENSIONS ==
    << <<"i","p","f">>, <<"a","d","f">>, <<"a","d","z">>, <<"d","m","s">>,
       <<"d","i","m">>, <<"d","6","4">>, <<"d","7","1">>, <<"d","8","1">>,
       <<"d","8","8">>, <<"d","s","k">>, <<"i","m","a">>, <<"f","d","i">>,
       <<"q","d">>,     <<"f","d","s">>, <<"t","a","p">>, <<"t","z","x">>,
       <<"c","a","s">> >>

DISC_INDEX_EXTENSIONS ==
    << <<"c","u","e">>, <<"t","o","c">>, <<"c","c","d">>, <<"g","d","i">> >>

DISC_IMAGE_EXTENSIONS ==
    << <<"m","d","s">>, <<"c","d","i">>, <<"i","m","g">>, <<"i","s","o">>,
       <<"c","h","d">>, <<"r","v","z">> >>

\* <[&str]>::contains
Contains(table, s) == \E i \in 1..Len(table) : table[i] = s

LowerLetters ==
    <<"a","b","c","d","e","f","g","h","i","j","k","l","m",
      "n","o","p","q","r","s","t","u","v","w","x","y","z">>

UpperLetters ==
    <<"A","B","C","D","E","F","G","H","I","J","K","L","M",
      "N","O","P","Q","R","S","T","U","V","W","X","Y","Z">>

\* char::to_lowercase on the ASCII characters the model uses
LowerChar(c) ==
    IF \E i \in 1..26 : UpperLetters[i] = c
    THEN LowerLetters[CHOOSE i \in 1..26 : UpperLetters[i] = c]
    ELSE c

\* char::to_uppercase on the ASCII characters the model uses
UpperChar(c) ==
    IF \E i \in 1..26 : LowerLetters[i] = c
    THEN UpperLetters[CHOOSE i \in 1..26 : LowerLetters[i] = c]
    ELSE c

\* a wrong lowering: the string is compared as given
to_lowercase_identity(s) == s

\* str::to_lowercase
to_lowercase(s) == [i \in 1..Len(s) |-> LowerChar(s[i])]

\* MediaType::from_extension
from_extension(e) ==
    LET ext_lower == to_lowercase(e) IN
    IF Contains(FLOPPY_EXTENSIONS, ext_lower) THEN Floppy
    ELSE IF Contains(DISC_INDEX_EXTENSIONS, ext_lower) THEN DiscIndex
    ELSE IF Contains(DISC_IMAGE_EXTENSIONS, ext_lower) THEN DiscImage
    ELSE None

\* MediaType::is_floppy
is_floppy(t) == t = Floppy

(***************************************************************************)
(* m3u.rs: is_text_file                                                    *)
(***************************************************************************)

\* what fs::read(path) gives: the bytes of the file, or a failure
Readable(data) == [readable |-> TRUE, data |-> data]
Unreadable     == [readable |-> FALSE, data |-> <<>>]

OkTrue  == "Ok(true)"
OkFalse == "Ok(false)"
Err     == "Err"

\* what infer::get(&bytes) answers: nothing, a kind whose mime type starts
\* with "text/", or a kind with any other mime type
InferNone   == "infer:none"
InferText   == "infer:text"
InferBinary == "infer:binary"
InferAnswers == {InferNone, InferText, InferBinary}

\* the closure of the filter: b == 0 || (b < 32 && b != 9 && b != 10 && b != 13)
IsNonText(b) == b = 0 \/ (b < 32 /\ b # 9 /\ b # 10 /\ b # 13)

RECURSIVE non_text_count(_)
non_text_count(bs) ==
    IF bs = <<>> THEN 0
    ELSE (IF IsNonText(Head(bs)) THEN 1 ELSE 0) + non_text_count(Tail(bs))

\* is_text_file; usize division truncates
is_text_file(content, inf) ==
    IF ~content.readable THEN Err
    ELSE IF content.data = <<>> THEN OkTrue
    ELSE IF inf = InferBinary THEN OkFalse
    ELSE IF non_text_count(content.data) < Len(content.data) \div 10
         THEN OkTrue ELSE OkFalse

(***************************************************************************)
(* m3u.rs: group_files                                                     *)
(*                                                                         *)
(* A MediaFile is [path, base_name, disc_number, media_type]; a GameSet is *)
(* [name, files].                                                          *)
(***************************************************************************)

\* one step of a wrong, unstable sort: the file goes in front of the files
\* that compare Equal to it
RECURSIVE insert_before_equal(_, _)
insert_before_equal(sorted, f) ==
    IF sorted = <<>> THEN <<f>>
    ELSE IF Head(sorted).disc_number < f.disc_number
         THEN <<Head(sorted)>> \o insert_before_equal(Tail(sorted), f)
         ELSE <<f>> \o sorted

\* one step of the stable sort: the file goes behind every file that compares
\* Less or Equal to it
RECURSIVE insert_stable(_, _)
insert_stable(sorted, f) ==
    IF sorted = <<>> THEN <<f>>
    ELSE IF Head(sorted).disc_number <= f.disc_number
         THEN <<Head(sorted)>> \o insert_stable(Tail(sorted), f)
         ELSE <<f>> \o sorted

\* files.sort_by(|a, b| a.disc_number.partial_cmp(&b.disc_number)...): a
\* stable sort by disc number
RECURSIVE sort_by_disc(_)
sort_by_disc(files) ==
    IF files = <<>> THEN <<>>
    ELSE insert_stable(sort_by_disc(SubSeq(files, 1, Len(files) - 1)),
                       files[Len(files)])

\* a wrong floppy set: named after the first file as encountered, not as sorted
floppy_set_unsorted_name(files, sorted) ==
    << [name |-> files[1].base_name, files |-> sorted] >>

\* floppy mode: all files in one group, named after the first sorted file
floppy_set(files, sorted) ==
    << [name |-> sorted[1].base_name, files |-> sorted] >>

\* a wrong loop body: only the group pushed last is looked at
push_file_last_group_only(groups, file) ==
    IF groups # <<>> /\ groups[Len(groups)].name = file.base_name
    THEN [groups EXCEPT ![Len(groups)].files = Append(@, file)]
    ELSE Append(groups, [name |-> file.base_name, files |-> <<file>>])

\* the body of the disc-mode loop: the file joins the first group of its
\* base_name, or opens a new group
push_file(groups, file) ==
    IF \E i \in 1..Len(groups) : groups[i].name = file.base_name
    THEN LET i == CHOOSE k \in 1..Len(groups) :
                      /\ groups[k].name = file.base_name
                      /\ \A m \in 1..(k - 1) : groups[m].name # file.base_name
         IN  [groups EXCEPT ![i].files = Append(@, file)]
    ELSE Append(groups, [name |-> file.base_name, files |-> <<file>>])

\* for file in files { ... }
RECURSIVE group_by_name(_)
group_by_name(files) ==
    IF files = <<>> THEN <<>>
    ELSE push_file(group_by_name(SubSeq(files, 1, Len(files) - 1)),
                   files[Len(files)])

\* a wrong group_files: force_disc_mode is not looked at
group_files_ignoring_force(files, force_disc_mode) ==
    IF files = <<>> THEN <<>>
    ELSE LET has_floppy == \E i \in 1..Len(files) : is_floppy(files[i].media_type)
             sorted == sort_by_disc(files)
         IN  IF has_floppy THEN floppy_set(files, sorted)
             ELSE LET groups == group_by_name(sorted)
                  IN  [i \in 1..Len(groups) |->
                          [groups[i] EXCEPT !.files = sort_by_disc(@)]]

\* group_files
group_files(files, force_disc_mode) ==
    IF files = <<>> THEN <<>>
    ELSE LET has_floppy == \E i \in 1..Len(files) : is_floppy(files[i].media_type)
             use_floppy_mode == has_floppy /\ ~force_disc_mode
             sorted == sort_by_disc(files)
         IN  IF use_floppy_mode THEN floppy_set(files, sorted)
             ELSE LET groups == group_by_name(sorted)
                  IN  [i \in 1..Len(groups) |->
                          [groups[i] EXCEPT !.files = sort_by_disc(@)]]

\* the lines write_m3u prints for a group when no relative base is given: the
\* path of each file, in the order of the group
playlist_lines(files) == [i \in 1..Len(files) |-> files[i].path]

(***************************************************************************)
(* scanner.rs: scan_directory                                              *)
(*                                                                         *)
(* A directory is [readable, entries]: whether fs::read_dir succeeds, and  *)
(* the entries it yields, in its order.  An entry is                       *)
(* [kind, utf8, ext, base_name, disc_number]: kind "err" is an entry whose *)
(* read fails, "file" one for which path.is_file() holds, "dir" any other; *)
(* utf8 tells whether the file name is valid UTF-8; ext is <<>> when       *)
(* path.extension() is None and <<e>> when it is Some(e); base_name and    *)
(* disc_number are what parse_filename returns for the file name.  The     *)
(* path of an entry is its place in the directory.                         *)
(***************************************************************************)

\* the ParsedFilename that parse_filename(&filename) returns for an entry
parse_filename(entry) ==
    [base_name |-> entry.base_name, disc_number |-> entry.disc_number]

EmptyScan ==
    [ok |-> TRUE, floppy_files |-> <<>>, disc_index_files |-> <<>>,
     disc_image_files |-> <<>>]

\* a wrong loop body: no path.is_file() test, directories are taken as well
scan_entry_no_file_test(acc, entry, path) ==
    IF ~acc.ok THEN acc
    ELSE IF entry.kind = "err" THEN [acc EXCEPT !.ok = FALSE]
    ELSE IF ~entry.utf8 THEN acc
    ELSE IF entry.ext = <<>> THEN acc
    ELSE LET media_type == from_extension(entry.ext[1])
             parsed == parse_filename(entry)
             media_file == [path |-> path, base_name |-> parsed.base_name,
                            disc_number |-> parsed.disc_number,
                            media_type |-> media_type]
         IN  CASE media_type = None -> acc
               [] media_type = Floppy ->
                      [acc EXCEPT !.floppy_files = Append(@, media_file)]
               [] media_type = DiscIndex ->
                      [acc EXCEPT !.disc_index_files = Append(@, media_file)]
               [] media_type = DiscImage ->
                      [acc EXCEPT !.disc_image_files = Append(@, media_file)]

\* the body of the loop over the entries of scan_directory
scan_entry(acc, entry, path) ==
    IF ~acc.ok THEN acc
    ELSE IF entry.kind = "err" THEN [acc EXCEPT !.ok = FALSE]
    ELSE IF entry.kind # "file" THEN acc
    ELSE IF ~entry.utf8 THEN acc
    ELSE IF entry.ext = <<>> THEN acc
    ELSE LET media_type == from_extension(entry.ext[1])
             parsed == parse_filename(entry)
             media_file == [path |-> path, base_name |-> parsed.base_name,
                            disc_number |-> parsed.disc_number,
                            media_type |-> media_type]
         IN  CASE media_type = None -> acc
               [] media_type = Floppy ->
                      [acc EXCEPT !.floppy_files = Append(@, media_file)]
               [] media_type = DiscIndex ->
                      [acc EXCEPT !.disc_index_files = Append(@, media_file)]
               [] media_type = DiscImage ->
                      [acc EXCEPT !.disc_image_files = Append(@, media_file)]

\* for entry in fs::read_dir(dir)? { ... }, over the first n entries
RECURSIVE scan_entries(_, _)
scan_entries(entries, n) ==
    IF n = 0 THEN EmptyScan
    ELSE scan_entry(scan_entries(entries, n - 1), entries[n], n)

\* a wrong priority: disc index files win over floppy files
select_tier_index_first(acc) ==
    IF acc.disc_index_files # <<>> THEN acc.disc_index_files
    ELSE IF acc.floppy_files # <<>> THEN acc.floppy_files
    ELSE acc.disc_image_files

\* Priority: floppy > disc index > disc image
select_tier(acc) ==
    IF acc.floppy_files # <<>> THEN acc.floppy_files
    ELSE IF acc.disc_index_files # <<>> THEN acc.disc_index_files
    ELSE acc.disc_image_files

ScanErr == [ok |-> FALSE, files |-> <<>>]

\* scan_directory
scan_directory(dir) ==
    IF ~dir.readable THEN ScanErr
    ELSE LET acc == scan_entries(dir.entries, Len(dir.entries))
         IN  IF ~acc.ok THEN ScanErr
             ELSE [ok |-> TRUE, files |-> select_tier(acc)]

(***************************************************************************)
(* parser.rs: word_to_number and extract_number                            *)
(*                                                                         *)
(* A &str is a sequence of one-character strings, all of them ASCII, so    *)
(* that str::len is the length of the sequence.  An Option is <<>> for     *)
(* None and <<x>> for Some(x).  A u32 is kept as its two 16-bit halves     *)
(* [hi, lo], of value hi * 65536 + lo: the model checker's integers end    *)
(* below 2^32 - 1.                                                         *)
(***************************************************************************)

\* the u32 of a small number
U32(n) == [hi |-> n \div 65536, lo |-> n % 65536]

\* the static NUMERALS map, as its (key, value) pairs
NUMERALS ==
    LET zero   == <<"z","e","r","o">>
        one    == <<"o","n","e">>
        two    == <<"t","w","o">>
        three  == <<"t","h","r","e","e">>
        four   == <<"f","o","u","r">>
        five   == <<"f","i","v","e">>
        six    == <<"s","i","x">>
        seven  == <<"s","e","v","e","n">>
        eight  == <<"e","i","g","h","t">>
        nine   == <<"n","i","n","e">>
        teen   == <<"t","e","e","n">>
        twenty == <<"t","w","e","n","t","y">>
        thirty == <<"t","h","i","r","t","y">>
        dash   == <<"-">>
    IN  << <<zero, 0>>, <<one, 1>>, <<two, 2>>, <<three, 3>>, <<four, 4>>,
           <<five, 5>>, <<six, 6>>, <<seven, 7>>, <<eight, 8>>, <<nine, 9>>,
           <<<<"t","e","n">>, 10>>,
           <<<<"e","l","e","v","e","n">>, 11>>,
           <<<<"t","w","e","l","v","e">>, 12>>,
           <<<<"t","h","i","r">> \o teen, 13>>,
           <<four \o teen, 14>>,
           <<<<"f","i","f">> \o teen, 15>>,
           <<six \o teen, 16>>,
           <<seven \o teen, 17>>,
           <<<<"e","i","g","h">> \o teen, 18>>,
           <<nine \o teen, 19>>,
           <<twenty, 20>>,
           <<twenty \o dash \o one, 21>>,   <<twenty \o dash \o two, 22>>,
           <<twenty \o dash \o three, 23>>, <<twenty \o dash \o four, 24>>,
           <<twenty \o dash \o five, 25>>,  <<twenty \o dash \o six, 26>>,
           <<twenty \o dash \o seven, 27>>, <<twenty \o dash \o eight, 28>>,
           <<twenty \o dash \o nine, 29>>,
           <<thirty, 30>>,
           <<thirty \o dash \o one, 31>>,
           <<<<"b","o","o","t">>, 0>>,
           <<<<"s","a","v","e">>, 99>> >>

\* char::is_ascii_uppercase
is_ascii_uppercase(ch) == \E i \in 1..26 : UpperLetters[i] = ch

\* (ch as u32) - ('A' as u32) + 1
alphabet_index(ch) == CHOOSE i \in 1..26 : UpperLetters[i] = ch

\* a wrong word_to_number: the single letter is tested after lowering, so
\* that letters of either case resolve
word_to_number_any_case(word) ==
    LET lower == to_lowercase(word) IN
    IF \E i \in 1..Len(NUMERALS) : NUMERALS[i][1] = lower
    THEN << U32(NUMERALS[CHOOSE i \in 1..Len(NUMERALS) : NUMERALS[i][1] = lower][2]) >>
    ELSE IF Len(word) = 1 /\ is_ascii_uppercase(UpperChar(lower[1]))
         THEN << U32(alphabet_index(UpperChar(lower[1]))) >>
         ELSE <<>>

\* word_to_number
word_to_number(word) ==
    LET lower == to_lowercase(word) IN
    IF \E i \in 1..Len(NUMERALS) : NUMERALS[i][1] = lower
    THEN << U32(NUMERALS[CHOOSE i \in 1..Len(NUMERALS) : NUMERALS[i][1] = lower][2]) >>
    ELSE IF Len(word) = 1 /\ is_ascii_uppercase(word[1])
         THEN << U32(alphabet_index(word[1])) >>
         ELSE <<>>

DigitChars == <<"0","1","2","3","4","5","6","7","8","9">>

\* the class \d of the regex, on the characters the model uses
IsDigit(c) == \E n \in 1..10 : DigitChars[n] = c

DigitValue(c) == (CHOOSE n \in 1..10 : DigitChars[n] = c) - 1

\* NUMBER_REGEX.find(s): the leftmost match of \d+, which is the longest run
\* of digits that starts at the first digit of s
NUMBER_REGEX_find(s) ==
    IF \A i \in 1..Len(s) : ~IsDigit(s[i]) THEN <<>>
    ELSE LET start == CHOOSE i \in 1..Len(s) :
                          IsDigit(s[i]) /\ \A j \in 1..(i - 1) : ~IsDigit(s[j])
             end   == CHOOSE j \in start..Len(s) :
                          /\ \A k \in start..j : IsDigit(s[k])
                          /\ j = Len(s) \/ ~IsDigit(s[j + 1])
         IN  << SubSeq(s, start, end) >>

\* one digit of u32::from_str: result.checked_mul(10)?.checked_add(d)?
checked_mul_add(acc, d) ==
    LET low  == acc.lo * 10 + d
        high == acc.hi * 10 + low \div 65536
    IN  IF high >= 65536 THEN <<>>
        ELSE << [hi |-> high, lo |-> low % 65536] >>

\* str::parse::<u32> on a string of digits: Err (here <<>>) when the string is
\* empty or the value is above u32::MAX
RECURSIVE parse_u32(_)
parse_u32(ds) ==
    IF ds = <<>> THEN <<>>
    ELSE IF Len(ds) = 1 THEN << U32(DigitValue(ds[1])) >>
    ELSE LET front == parse_u32(SubSeq(ds, 1, Len(ds) - 1))
         IN  IF front = <<>> THEN <<>>
             ELSE checked_mul_add(front[1], DigitValue(ds[Len(ds)]))

\* char::is_whitespace on the characters the model uses
IsWhitespace(c) == c \in {" ", "\t"}

\* str::split_whitespace: the maximal runs of characters that are not
\* whitespace
RECURSIVE split_whitespace(_)
split_whitespace(s) ==
    IF s = <<>> THEN <<>>
    ELSE IF IsWhitespace(Head(s)) THEN split_whitespace(Tail(s))
    ELSE LET n == CHOOSE j \in 1..Len(s) :
                      /\ \A k \in 1..j : ~IsWhitespace(s[k])
                      /\ j = Len(s) \/ IsWhitespace(s[j + 1])
         IN  << SubSeq(s, 1, n) >> \o split_whitespace(SubSeq(s, n + 1, Len(s)))

\* a wrong extract_number: the first word that resolves is taken
extract_number_first_resolvable(s) ==
    LET m      == NUMBER_REGEX_find(s)
        parsed == IF m = <<>> THEN <<>> ELSE parse_u32(m[1])
        words  == split_whitespace(s)
    IN  IF parsed # <<>> THEN parsed
        ELSE IF \A i \in 1..Len(words) : word_to_number(words[i]) = <<>> THEN <<>>
        ELSE word_to_number(words[CHOOSE i \in 1..Len(words) :
                                /\ word_to_number(words[i]) # <<>>
                                /\ \A j \in 1..(i - 1) : word_to_number(words[j]) = <<>>])

\* extract_number
extract_number(s) ==
    LET m      == NUMBER_REGEX_find(s)
        parsed == IF m = <<>> THEN <<>> ELSE parse_u32(m[1])
        words  == split_whitespace(s)
    IN  IF parsed # <<>> THEN parsed
        ELSE IF words = <<>> THEN <<>>
        ELSE IF Len(words) = 1 THEN word_to_number(words[1])
        ELSE word_to_number(words[2])

(***************************************************************************)
(* main.rs and write_m3u: the file system and the operations on it         *)
(*                                                                         *)
(* A file beside the media files is [stem, ext, content, sig, origin]:     *)
(* its name is stem.ext, content is what fs::read gives, sig what          *)
(* infer::get answers for it, origin "pre" for a file that was there       *)
(* before the run and "run" for one the run created.  A directory of fs is *)
(* a set of such files, no two of the same name.  Directories are          *)
(* <<"src", d>> for directory d under the target, <<"dest", 0>> for the    *)
(* destination and <<"dest", c>> for its subdirectory of child c.          *)
(* read_dir, remove_file, create_dir_all and remove_dir are taken to       *)
(* succeed; scanning, reading a candidate playlist and creating a playlist *)
(* can fail.                                                               *)
(***************************************************************************)

M3U == <<"m","3","u">>

\* OsStr::to_ascii_lowercase on the characters the model uses
to_ascii_lowercase(s) == [i \in 1..Len(s) |-> LowerChar(s[i])]

\* a wrong extension test: only the lower-case spelling is a playlist
has_m3u_extension_exact(f) == f.ext = M3U

\* path.extension().map(|e| e.to_ascii_lowercase()) == Some("m3u".into())
has_m3u_extension(f) == to_ascii_lowercase(f.ext) = M3U

CleanOk      == "ok"
CleanRefused == "refused"
CleanReadErr == "read"

\* a wrong loop body: the file is removed without asking is_text_file
clean_entry_unchecked(acc, f) ==
    IF acc.result # CleanOk THEN acc
    ELSE IF has_m3u_extension(f)
         THEN [acc EXCEPT !.files = @ \ {f}]
         ELSE acc

\* the body of the loop of check_and_clean_m3us; acc is the result so far
\* and the files left in the directory
clean_entry(acc, f) ==
    IF acc.result # CleanOk THEN acc
    ELSE IF has_m3u_extension(f)
         THEN LET t == is_text_file(f.content, f.sig) IN
              IF t = Err THEN [acc EXCEPT !.result = CleanReadErr]
              ELSE IF t = OkFalse THEN [acc EXCEPT !.result = CleanRefused]
              ELSE [acc EXCEPT !.files = @ \ {f}]
         ELSE acc

\* check_and_clean_m3us on a directory whose entries read_dir yields in the
\* given order
RECURSIVE check_and_clean_m3us(_, _)
check_and_clean_m3us(dirFiles, order) ==
    IF order = <<>> THEN [result |-> CleanOk, files |-> dirFiles]
    ELSE clean_entry(check_and_clean_m3us(dirFiles, SubSeq(order, 1, Len(order) - 1)),
                     order[Len(order)])

\* the orders in which read_dir can yield the files of a directory
ReadDirOrders(dirFiles) ==
    {o \in [1..Cardinality(dirFiles) -> dirFiles] :
        \A i, j \in 1..Cardinality(dirFiles) : i # j => o[i] # o[j]}

RECURSIVE Concat(_)
Concat(qs) == IF qs = <<>> THEN <<>> ELSE Head(qs) \o Concat(Tail(qs))

Digit(n) == 48 + n

\* the text of the path of file n of directory d under the target /r:
\* "/r/d<d>/f<n>.x"
AbsolutePath(d, n) == <<47, 114, 47, 100, Digit(d), 47, 102, Digit(n), 46, 120>>

\* pathdiff::diff_paths(&media_file.path, base): the same file seen from the
\* playlist directory: "f<n>.x" from its own directory, "../r/d<d>/f<n>.x"
\* from the destination /o, "../../r/d<d>/f<n>.x" from a subdirectory of it
RelativePath(d, n, base) ==
    LET up   == <<46, 46, 47>>
        tail == <<114, 47, 100, Digit(d), 47, 102, Digit(n), 46, 120>>
    IN  IF base[1] = "src" THEN <<102, Digit(n), 46, 120>>
        ELSE IF base[2] = 0 THEN up \o tail
        ELSE up \o up \o tail

\* the bytes write_m3u prints: one path per line
playlist_bytes(d, members, relative_to) ==
    Concat([k \in 1..Len(members) |->
               (IF relative_to = <<>>
                THEN AbsolutePath(d, members[k].path)
                ELSE RelativePath(d, members[k].path, relative_to[1])) \o <<10>>])

\* the file fs::File::create(m3u_path) and the writeln! calls leave at
\* m3u_dir/<name>.m3u
written_playlist(d, group, relative_to) ==
    [stem |-> group.name, ext |-> M3U,
     content |-> Readable(playlist_bytes(d, group.files, relative_to)),
     sig |-> InferNone, origin |-> "run"]

\* write_m3u when it succeeds: the directory afterwards; a file of the same
\* name is truncated and rewritten
write_m3u(dirFiles, d, group, relative_to) ==
    {f \in dirFiles : ~(f.stem = group.name /\ f.ext = M3U)}
        \cup {written_playlist(d, group, relative_to)}

(***************************************************************************)
(* Bounded inputs of the pure functions                                    *)
(***************************************************************************)

\* every spelling of s that differs from it in letter case only
RECURSIVE CaseVariants(_)
CaseVariants(s) ==
    IF s = <<>> THEN {<<>>}
    ELSE {<<c>> \o r : c \in {Head(s), UpperChar(Head(s))}, r \in CaseVariants(Tail(s))}

SeqRange(q) == {q[i] : i \in 1..Len(q)}

TableOf(t) ==
    CASE t = Floppy    -> FLOPPY_EXTENSIONS
      [] t = DiscIndex -> DISC_INDEX_EXTENSIONS
      [] t = DiscImage -> DISC_IMAGE_EXTENSIONS

AllTableEntries == UNION {SeqRange(TableOf(t)) : t \in MediaType}

\* extensions outside the tables: other formats, prefixes and extensions of
\* table entries, the empty string
OtherExtensions ==
    { <<"t","x","t">>, <<"e","x","e">>, <<"m","3","u">>, <<"M","3","U">>,
      <<"b","i","n">>, <<"B","I","N">>, <<"c","u">>, <<"c","u","e","s">>,
      <<"a","d">>, <<"i","s","o","s">>, <<"q">>, <<"Q","D","X">>, <<"6","4">>,
      <<>> }

ExtInputs == (UNION {CaseVariants(e) : e \in AllTableEntries}) \cup OtherExtensions

\* representative byte values: NUL, a control character, tab, newline,
\* a printable ASCII character, a byte above 127
ByteVals == {0, 1, 9, 10, 65, 255}

MaxLen == 12

\* the contents of at most n bytes, one per multiset of byte values (the count
\* and the length is_text_file computes do not depend on the order of bytes)
RECURSIVE SortedContents(_)
SortedContents(n) ==
    IF n = 0 THEN {<<>>}
    ELSE LET shorter == SortedContents(n - 1)
             longest == {c \in shorter : Len(c) = n - 1}
         IN  shorter \cup
             UNION {{Append(c, b) : b \in {v \in ByteVals : c = <<>> \/ c[Len(c)] <= v}} :
                    c \in longest}

BaseNames == {"A", "B"}

\* disc numbers in tenths: no number, disc 1, disc 1 side 1, disc 2
DiscNumbers == {0, 10, 11, 20}

MaxFiles == 3

\* the inputs of group_files: at most MaxFiles files, the path of a file being
\* its place in the sequence
GroupInputs ==
    UNION {[1..n -> [base_name : BaseNames, disc_number : DiscNumbers,
                     media_type : {Floppy, DiscIndex}]] : n \in 0..MaxFiles}

WithPaths(q) ==
    [i \in 1..Len(q) |-> [path |-> i, base_name |-> q[i].base_name,
                          disc_number |-> q[i].disc_number,
                          media_type |-> q[i].media_type]]

\* the entries a scanned directory is made of: regular files of each tier
\* (one extension in upper case), a text file, a file without extension, a
\* directory and a file with a non-UTF-8 name that carry a floppy extension,
\* and an entry that cannot be read
ScanEntries ==
    {[kind |-> "file", utf8 |-> TRUE, ext |-> <<e>>, base_name |-> n[1],
      disc_number |-> n[2]] :
         e \in {<<"a","d","f">>, <<"C","U","E">>, <<"i","s","o">>},
         n \in {<<"A", 10>>, <<"B", 20>>}}
    \cup
    {[kind |-> "file", utf8 |-> TRUE, ext |-> << <<"t","x","t">> >>,
      base_name |-> "A", disc_number |-> 0],
     [kind |-> "file", utf8 |-> TRUE, ext |-> <<>>,
      base_name |-> "A", disc_number |-> 0],
     [kind |-> "dir", utf8 |-> TRUE, ext |-> << <<"a","d","f">> >>,
      base_name |-> "A", disc_number |-> 10],
     [kind |-> "file", utf8 |-> FALSE, ext |-> << <<"a","d","f">> >>,
      base_name |-> "A", disc_number |-> 10],
     [kind |-> "err", utf8 |-> TRUE, ext |-> <<>>,
      base_name |-> "A", disc_number |-> 0]}

MaxEntries == 3

ScanInputs ==
    {[readable |-> FALSE, entries |-> <<>>]} \cup
    {[readable |-> TRUE, entries |-> q] :
         q \in UNION {[1..n -> ScanEntries] : n \in 0..MaxEntries}}

\* str::to_uppercase on the ASCII characters the model uses
ToUpper(s) == [i \in 1..Len(s) |-> UpperChar(s[i])]

\* the first letter in upper case
Capitalize(s) == [i \in 1..Len(s) |-> IF i = 1 THEN UpperChar(s[i]) ELSE s[i]]

\* the locator keywords as file names write them
Locators ==
    { <<"D","i","s","c">>, <<"D","i","s","k">>, <<"C","D">>,
      <<"F","l","o","p","p","y">>, <<"S","i","d","e">>, <<"P","a","r","t">> }

Space == <<" ">>

\* the digit form of a number from 1 to 99
DecimalOf(k) ==
    IF k < 10 THEN <<DigitChars[k + 1]>>
    ELSE <<DigitChars[(k \div 10) + 1], DigitChars[(k % 10) + 1]>>

\* a letter of either case or the digit form of a letter's index, alone and
\* behind each locator
LetterTokens ==
    LET values == {<<UpperLetters[k]>> : k \in 1..26}
                      \cup {<<LowerLetters[k]>> : k \in 1..26}
                      \cup {DecimalOf(k) : k \in 1..26}
    IN  values \cup {loc \o Space \o v : loc \in Locators, v \in values}

\* every number word and special in three spellings, alone and behind "Disc"
NumeralTokens ==
    LET spellings == UNION {{NUMERALS[i][1], ToUpper(NUMERALS[i][1]),
                             Capitalize(NUMERALS[i][1])} : i \in 1..Len(NUMERALS)}
    IN  spellings \cup {<<"D","i","s","c">> \o Space \o v : v \in spellings}

\* the words longer tokens are made of: a locator, number words, a word that
\* does not resolve, letters, digit runs with and without leading zeros, the
\* largest u32 and its successor, a word with a digit inside
ParseWords ==
    { <<"D","i","s","k">>, <<"T","w","o">>, <<"b","o","o","t">>,
      <<"h","e","l","l","o">>, <<"B">>, <<"b">>, <<"7">>, <<"0","0","7">>,
      <<"4","2","9","4","9","6","7","2","9","5">>,
      <<"4","2","9","4","9","6","7","2","9","6">>,
      <<"x","2","y">> }

MaxWords == 3

RECURSIVE Join(_)
Join(ws) ==
    IF ws = <<>> THEN <<>>
    ELSE IF Len(ws) = 1 THEN ws[1]
    ELSE ws[1] \o Space \o Join(Tail(ws))

\* at most MaxWords words with a space between them, with and without
\* whitespace in front and behind
WordTokens ==
    {front \o Join(ws) \o back :
        front \in {<<>>, <<" ">>}, back \in {<<>>, <<"\t">>},
        ws \in UNION {[1..n -> ParseWords] : n \in 0..MaxWords}}

ParseInputs == LetterTokens \cup NumeralTokens \cup WordTokens

EmptyDir == [readable |-> TRUE, entries |-> <<>>]

NumDirs == 2

SrcDirs == 1..NumDirs

Dest == <<"dest", 0>>
DestChild(c) == <<"dest", c>>
SrcDir(d) == <<"src", d>>
NoDir == <<"none", 0>>

FsDirs == {SrcDir(d) : d \in SrcDirs} \cup {DestChild(c) : c \in 0..NumDirs}

AdfFile(b, n) ==
    [kind |-> "file", utf8 |-> TRUE, ext |-> << <<"a","d","f">> >>,
     base_name |-> b, disc_number |-> n]

\* what a directory under the target can hold: it cannot be read; no media;
\* disk 2 of title B and disk 1 of title A, which make one GameSet "A"
\* without force and the GameSets "A" and "B" with force
MediaDirs ==
    {[readable |-> FALSE, entries |-> <<>>],
     EmptyDir,
     [readable |-> TRUE, entries |-> <<AdfFile("B", 20), AdfFile("A", 10)>>]}

\* "/r/d1/a.cue" and a newline: a playlist of an earlier run
TextBytes == <<47, 114, 47, 100, 49, 47, 97, 46, 99, 117, 101, 10>>

\* the five bytes of test_is_text_file_binary
BinaryBytes == <<0, 1, 2, 255, 254>>

\* the files that can be in a playlist directory before the run: A.m3u (the
\* name of a playlist the run may write) with text, with binary content or
\* not readable; old.M3U with text or binary content; A.txt
PreFiles ==
    {[stem |-> "A", ext |-> M3U, content |-> c, sig |-> InferNone, origin |-> "pre"] :
         c \in {Readable(TextBytes), Readable(BinaryBytes), Unreadable}}
    \cup
    {[stem |-> "old", ext |-> <<"M","3","U">>, content |-> c, sig |-> InferNone,
      origin |-> "pre"] : c \in {Readable(TextBytes), Readable(BinaryBytes)}}
    \cup
    {[stem |-> "A", ext |-> <<"t","x","t">>, content |-> Readable(BinaryBytes),
      sig |-> InferNone, origin |-> "pre"]}

MaxPre == 2

RECURSIVE SubsetsUpTo(_, _)
SubsetsUpTo(S, k) ==
    IF k = 0 THEN {{}}
    ELSE LET smaller == SubsetsUpTo(S, k - 1)
         IN  smaller \cup {p \cup {x} : p \in smaller, x \in S}

\* the ways the directories can lie in top-level directories of the target:
\* directory 1 in child 1, every other in the child of an earlier directory
\* or in the next new child
Topologies ==
    {t \in [SrcDirs -> SrcDirs] :
        \A d \in SrcDirs :
            \/ d = 1 /\ t[d] = 1
            \/ d > 1 /\ \E e \in 1..(d - 1) : t[d] = t[e]
            \/ d > 1 /\ t[d] = 1 + Cardinality({t[e] : e \in 1..(d - 1)})
                     /\ \A e \in 1..(d - 1) : t[e] # t[d]}

Children(t) == {t[d] : d \in SrcDirs}

\* cli.validate passed: --children comes with a destination
ValidClis ==
    {c \in [children : BOOLEAN, destination : BOOLEAN, force : BOOLEAN,
            relative : BOOLEAN] : c.children => c.destination}

\* the directories the run can write playlists to
PlaylistDirs(c, t) ==
    IF c.children THEN {DestChild(k) : k \in Children(t)}
    ELSE IF c.destination THEN {Dest}
    ELSE {SrcDir(d) : d \in SrcDirs}

\* the file systems with at most MaxPre files in the playlist directories
InitialFs(c, t) ==
    {[dir \in FsDirs |-> {p[2] : p \in {q \in P : q[1] = dir}}] :
        P \in {Q \in SubsetsUpTo(PlaylistDirs(c, t) \X PreFiles, MaxPre) :
                  \A p, q \in Q :
                      (p[1] = q[1] /\ p[2].stem = q[2].stem /\ p[2].ext = q[2].ext)
                          => p = q}}

\* a set as a sequence in ascending order
RECURSIVE Ascending(_)
Ascending(S) ==
    IF S = {} THEN <<>>
    ELSE LET m == CHOOSE x \in S : \A y \in S : x <= y
         IN  <<m>> \o Ascending(S \ {m})

IdleRun ==
    /\ cli = [children |-> FALSE, destination |-> FALSE, force |-> FALSE,
              relative |-> FALSE]
    /\ src = [d \in SrcDirs |-> EmptyDir]
    /\ childOf = [d \in SrcDirs |-> 1]
    /\ fs = [dir \in FsDirs |-> {}]
    /\ fs0 = [dir \in FsDirs |-> {}]
    /\ destDirs = {}
    /\ queue = <<>> /\ dirs = <<>> /\ found = <<>> /\ pending = <<>>
    /\ m3u_dir = NoDir
    /\ total_m3us = 0
    /\ cleaned = {}
    /\ warnings = {}
    /\ errorMsg = ""
    /\ exit = -1

IdleExt   == ext = <<>> /\ extResult = Pending
IdleText  == bytes = Readable(<<>>) /\ infer = InferNone /\ textResult = Pending
IdleGroup == gInput = <<>> /\ gForce = FALSE /\ gOutput = <<>>
IdleScan  == dirEntries = EmptyDir /\ scanResult = ScanErr /\ scanForce = FALSE
             /\ scanGroups = <<>>
IdleParse == token = <<>> /\ number = <<>>

(***************************************************************************)
(* Specification of the classifier: one call of from_extension             *)
(***************************************************************************)

InitExt ==
    /\ pc = "call"
    /\ ext \in ExtInputs
    /\ extResult = Pending
    /\ IdleText /\ IdleGroup /\ IdleScan /\ IdleParse /\ IdleRun

Classify ==
    /\ pc = "call"
    /\ pc' = "done"
    /\ extResult' = from_extension(ext)
    /\ UNCHANGED <<ext, textVars, groupVars, scanVars, parseVars, runVars>>

NextExt == Classify

SpecExt == InitExt /\ [][NextExt]_vars

(***************************************************************************)
(* Specification of the text check: one call of is_text_file               *)
(***************************************************************************)

InitText ==
    /\ pc = "call"
    /\ bytes \in {Readable(d) : d \in SortedContents(MaxLen)} \cup {Unreadable}
    /\ infer \in InferAnswers
    /\ textResult = Pending
    /\ IdleExt /\ IdleGroup /\ IdleScan /\ IdleParse /\ IdleRun

CheckText ==
    /\ pc = "call"
    /\ pc' = "done"
    /\ textResult' = is_text_file(bytes, infer)
    /\ UNCHANGED <<bytes, infer, extVars, groupVars, scanVars, parseVars, runVars>>

NextText == CheckText

SpecText == InitText /\ [][NextText]_vars

(***************************************************************************)
(* Specification of the grouper: one call of group_files                   *)
(***************************************************************************)

InitGroup ==
    /\ pc = "call"
    /\ gInput \in {WithPaths(q) : q \in GroupInputs}
    /\ gForce \in BOOLEAN
    /\ gOutput = <<>>
    /\ IdleExt /\ IdleText /\ IdleScan /\ IdleParse /\ IdleRun

Group ==
    /\ pc = "call"
    /\ pc' = "done"
    /\ gOutput' = group_files(gInput, gForce)
    /\ UNCHANGED <<gInput, gForce, extVars, textVars, scanVars, parseVars, runVars>>

NextGroup == Group

SpecGroup == InitGroup /\ [][NextGroup]_vars

(***************************************************************************)
(* Specification of the scanner: one directory of a run is scanned and its *)
(* files are grouped, as run_normal_mode and run_children_mode do          *)
(***************************************************************************)

InitScan ==
    /\ pc = "call"
    /\ dirEntries \in ScanInputs
    /\ scanForce \in BOOLEAN
    /\ scanResult = ScanErr
    /\ scanGroups = <<>>
    /\ IdleExt /\ IdleText /\ IdleGroup /\ IdleParse /\ IdleRun

\* let files = match scan_directory(dir) { ... }
Scan ==
    /\ pc = "call"
    /\ pc' = "scanned"
    /\ scanResult' = scan_directory(dirEntries)
    /\ UNCHANGED <<dirEntries, scanForce, scanGroups, extVars, textVars, groupVars, parseVars, runVars>>

\* Err(e) => { warning; continue }  and  if files.is_empty() { continue }
ScanSkip ==
    /\ pc = "scanned"
    /\ ~scanResult.ok \/ scanResult.files = <<>>
    /\ pc' = "skipped"
    /\ UNCHANGED <<scanVars, extVars, textVars, groupVars, parseVars, runVars>>

\* let groups = group_files(files, cli.force);
ScanGroup ==
    /\ pc = "scanned"
    /\ scanResult.ok /\ scanResult.files # <<>>
    /\ pc' = "done"
    /\ scanGroups' = group_files(scanResult.files, scanForce)
    /\ UNCHANGED <<dirEntries, scanResult, scanForce, extVars, textVars, groupVars, parseVars, runVars>>

NextScan == Scan \/ ScanSkip \/ ScanGroup

SpecScan == InitScan /\ [][NextScan]_vars

(***************************************************************************)
(* Specification of the number parser: one call of extract_number          *)
(***************************************************************************)

InitParse ==
    /\ pc = "call"
    /\ token \in ParseInputs
    /\ number = <<>>
    /\ IdleExt /\ IdleText /\ IdleGroup /\ IdleScan /\ IdleRun

Extract ==
    /\ pc = "call"
    /\ pc' = "done"
    /\ number' = extract_number(token)
    /\ UNCHANGED <<token, extVars, textVars, groupVars, scanVars, runVars>>

NextParse == Extract

SpecParse == InitParse /\ [][NextParse]_vars

(***************************************************************************)
(* Specification of a run: main after cli.validate, in normal mode or in   *)
(* children mode                                                           *)
(***************************************************************************)

pureVars == <<extVars, textVars, groupVars, scanVars, parseVars>>

Init ==
    /\ pc = "start"
    /\ cli \in ValidClis
    /\ childOf \in (IF cli.children THEN Topologies ELSE {[d \in SrcDirs |-> 1]})
    /\ fs \in InitialFs(cli, childOf)
    /\ fs0 = fs
    /\ src \in [SrcDirs -> MediaDirs]
    /\ destDirs = {c \in 1..NumDirs : fs[DestChild(c)] # {}}
    /\ queue = <<>> /\ dirs = <<>> /\ found = <<>> /\ pending = <<>>
    /\ m3u_dir = NoDir
    /\ total_m3us = 0
    /\ cleaned = {}
    /\ warnings = {}
    /\ errorMsg = ""
    /\ exit = -1
    /\ IdleExt /\ IdleText /\ IdleGroup /\ IdleScan /\ IdleParse

\* if cli.relative { Some(m3u_dir.as_path()) } else { None }
RelativeTo(dir) == IF cli.relative THEN <<dir>> ELSE <<>>

\* how a call of write_m3u can end: the playlist is written; File::create
\* fails and nothing changes; a writeln! fails and the created file is left
\* without content
WriteOutcomes == {"written", "create failed", "write failed"}

TruncatedPlaylist(group) ==
    [stem |-> group.name, ext |-> M3U, content |-> Readable(<<>>),
     sig |-> InferNone, origin |-> "run"]

FsAfterWrite(outcome, dir, d, group) ==
    CASE outcome = "written" ->
             [fs EXCEPT ![dir] = write_m3u(@, d, group, RelativeTo(dir))]
      [] outcome = "create failed" -> fs
      [] outcome = "write failed" ->
             [fs EXCEPT ![dir] =
                 {f \in @ : ~(f.stem = group.name /\ f.ext = M3U)}
                     \cup {TruncatedPlaylist(group)}]

\* run_normal_mode up to its loop: the directories are collected and a
\* destination is cleaned
NormalStart ==
    /\ pc = "start"
    /\ ~cli.children
    /\ IF cli.destination
       THEN \E order \in ReadDirOrders(fs[Dest]) :
                LET r == check_and_clean_m3us(fs[Dest], order) IN
                /\ fs' = [fs EXCEPT ![Dest] = r.files]
                /\ IF r.result = CleanOk
                   THEN /\ cleaned' = cleaned \cup {Dest}
                        /\ queue' = Ascending(SrcDirs)
                        /\ pc' = "loop"
                        /\ UNCHANGED <<errorMsg, exit>>
                   ELSE /\ errorMsg' = r.result
                        /\ exit' = 1
                        /\ pc' = "done"
                        /\ UNCHANGED <<cleaned, queue>>
       ELSE /\ queue' = Ascending(SrcDirs)
            /\ pc' = "loop"
            /\ UNCHANGED <<fs, cleaned, errorMsg, exit>>
    /\ UNCHANGED <<cli, src, childOf, fs0, destDirs, dirs, found, pending, m3u_dir,
                   total_m3us, warnings, pureVars>>

\* the head of the loop body: scan_directory and the two continues
NormalScanDir ==
    /\ pc = "loop"
    /\ queue # <<>>
    /\ LET d == Head(queue)
           r == scan_directory(src[d])
       IN  IF ~r.ok
           THEN /\ warnings' = warnings \cup {[dir |-> SrcDir(d), cause |-> "scan"]}
                /\ queue' = Tail(queue)
                /\ UNCHANGED <<pc, found>>
           ELSE IF r.files = <<>>
           THEN /\ queue' = Tail(queue)
                /\ UNCHANGED <<pc, found, warnings>>
           ELSE /\ found' = r.files
                /\ pc' = "prepare"
                /\ UNCHANGED <<queue, warnings>>
    /\ UNCHANGED <<cli, src, childOf, fs, fs0, destDirs, dirs, pending, m3u_dir,
                   total_m3us, cleaned, errorMsg, exit, pureVars>>

\* let m3u_dir = ...; let groups = group_files(files, cli.force);
NormalPrepare ==
    /\ pc = "prepare"
    /\ LET d == Head(queue) IN
       IF cli.destination
       THEN /\ m3u_dir' = Dest
            /\ pending' = group_files(found, cli.force)
            /\ pc' = "write"
            /\ UNCHANGED <<fs, cleaned, warnings, queue>>
       ELSE \E order \in ReadDirOrders(fs[SrcDir(d)]) :
                LET r == check_and_clean_m3us(fs[SrcDir(d)], order) IN
                /\ fs' = [fs EXCEPT ![SrcDir(d)] = r.files]
                /\ IF r.result = CleanOk
                   THEN /\ cleaned' = cleaned \cup {SrcDir(d)}
                        /\ m3u_dir' = SrcDir(d)
                        /\ pending' = group_files(found, cli.force)
                        /\ pc' = "write"
                        /\ UNCHANGED <<warnings, queue>>
                   ELSE /\ warnings' = warnings \cup
                                {[dir |-> SrcDir(d), cause |-> r.result]}
                        /\ queue' = Tail(queue)
                        /\ pc' = "loop"
                        /\ UNCHANGED <<cleaned, m3u_dir, pending>>
    /\ UNCHANGED <<cli, src, childOf, fs0, destDirs, dirs, found, total_m3us,
                   errorMsg, exit, pureVars>>

\* one round of: for group in groups { write_m3u(...)?; total_m3us += 1; }
NormalWrite ==
    /\ pc = "write"
    /\ \E outcome \in WriteOutcomes :
           /\ fs' = FsAfterWrite(outcome, m3u_dir, Head(queue), Head(pending))
           /\ IF outcome = "written"
              THEN /\ total_m3us' = total_m3us + 1
                   /\ pending' = Tail(pending)
                   /\ IF Tail(pending) = <<>>
                      THEN queue' = Tail(queue) /\ pc' = "loop"
                      ELSE UNCHANGED <<queue, pc>>
                   /\ UNCHANGED <<errorMsg, exit>>
              ELSE /\ errorMsg' = "write"
                   /\ exit' = 1
                   /\ pc' = "done"
                   /\ UNCHANGED <<total_m3us, pending, queue>>
    /\ UNCHANGED <<cli, src, childOf, fs0, destDirs, dirs, found, m3u_dir, cleaned,
                   warnings, pureVars>>

\* after the loop: "Done: Created n m3u files" and Ok(())
NormalFinish ==
    /\ pc = "loop"
    /\ queue = <<>>
    /\ exit' = 0
    /\ pc' = "done"
    /\ UNCHANGED <<cli, src, childOf, fs, fs0, destDirs, queue, dirs, found, pending,
                   m3u_dir, total_m3us, cleaned, warnings, errorMsg, pureVars>>

\* run_children_mode up to its loop: the top-level directories are listed
ChildrenStart ==
    /\ pc = "start"
    /\ cli.children
    /\ IF Children(childOf) = {}
       THEN exit' = 0 /\ pc' = "done" /\ UNCHANGED queue
       ELSE queue' = Ascending(Children(childOf)) /\ pc' = "child"
                /\ UNCHANGED exit
    /\ UNCHANGED <<cli, src, childOf, fs, fs0, destDirs, dirs, found, pending, m3u_dir,
                   total_m3us, cleaned, warnings, errorMsg, pureVars>>

\* the head of the loop over the children: the subdirectory of the
\* destination is created and cleaned, the child is walked
ChildBegin ==
    /\ pc = "child"
    /\ queue # <<>>
    /\ LET c == Head(queue) IN
       /\ m3u_dir' = DestChild(c)
       /\ destDirs' = destDirs \cup {c}
       /\ \E order \in ReadDirOrders(fs[DestChild(c)]) :
              LET r == check_and_clean_m3us(fs[DestChild(c)], order) IN
              /\ fs' = [fs EXCEPT ![DestChild(c)] = r.files]
              /\ IF r.result = CleanOk
                 THEN /\ cleaned' = cleaned \cup {DestChild(c)}
                      /\ dirs' = Ascending({d \in SrcDirs : childOf[d] = c})
                      /\ pc' = "cscan"
                      /\ UNCHANGED <<errorMsg, exit>>
                 ELSE /\ errorMsg' = r.result
                      /\ exit' = 1
                      /\ pc' = "done"
                      /\ UNCHANGED <<cleaned, dirs>>
    /\ UNCHANGED <<cli, src, childOf, fs0, queue, found, pending, total_m3us,
                   warnings, pureVars>>

\* the head of the loop over the directories of a child: scan_directory, the
\* two continues and group_files
ChildScanDir ==
    /\ pc = "cscan"
    /\ dirs # <<>>
    /\ LET d == Head(dirs)
           r == scan_directory(src[d])
       IN  IF ~r.ok
           THEN /\ warnings' = warnings \cup {[dir |-> SrcDir(d), cause |-> "scan"]}
                /\ dirs' = Tail(dirs)
                /\ UNCHANGED <<pc, found, pending>>
           ELSE IF r.files = <<>>
           THEN /\ dirs' = Tail(dirs)
                /\ UNCHANGED <<pc, found, pending, warnings>>
           ELSE /\ found' = r.files
                /\ pending' = group_files(r.files, cli.force)
                /\ pc' = "cwrite"
                /\ UNCHANGED <<dirs, warnings>>
    /\ UNCHANGED <<cli, src, childOf, fs, fs0, destDirs, queue, m3u_dir, total_m3us,
                   cleaned, errorMsg, exit, pureVars>>

\* one round of: for group in groups { write_m3u(...)?; total_m3us += 1; }
ChildWrite ==
    /\ pc = "cwrite"
    /\ \E outcome \in WriteOutcomes :
           /\ fs' = FsAfterWrite(outcome, m3u_dir, Head(dirs), Head(pending))
           /\ IF outcome = "written"
              THEN /\ total_m3us' = total_m3us + 1
                   /\ pending' = Tail(pending)
                   /\ IF Tail(pending) = <<>>
                      THEN dirs' = Tail(dirs) /\ pc' = "cscan"
                      ELSE UNCHANGED <<dirs, pc>>
                   /\ UNCHANGED <<errorMsg, exit>>
              ELSE /\ errorMsg' = "write"
                   /\ exit' = 1
                   /\ pc' = "done"
                   /\ UNCHANGED <<total_m3us, pending, dirs>>
    /\ UNCHANGED <<cli, src, childOf, fs0, destDirs, queue, found, m3u_dir, cleaned,
                   warnings, pureVars>>

\* the end of the loop body of a child: an empty subdirectory is removed
ChildEnd ==
    /\ pc = "cscan"
    /\ dirs = <<>>
    /\ destDirs' = IF fs[m3u_dir] = {} THEN destDirs \ {Head(queue)} ELSE destDirs
    /\ queue' = Tail(queue)
    /\ pc' = "child"
    /\ UNCHANGED <<cli, src, childOf, fs, fs0, dirs, found, pending, m3u_dir,
                   total_m3us, cleaned, warnings, errorMsg, exit, pureVars>>

\* after the loop: "Done: Created n m3u files" and Ok(())
ChildrenFinish ==
    /\ pc = "child"
    /\ queue = <<>>
    /\ exit' = 0
    /\ pc' = "done"
    /\ UNCHANGED <<cli, src, childOf, fs, fs0, destDirs, queue, dirs, found, pending,
                   m3u_dir, total_m3us, cleaned, warnings, errorMsg, pureVars>>

Next ==
    \/ NormalStart \/ NormalScanDir \/ NormalPrepare \/ NormalWrite \/ NormalFinish
    \/ ChildrenStart \/ ChildBegin \/ ChildScanDir \/ ChildWrite \/ ChildEnd
    \/ ChildrenFinish

Spec == Init /\ [][Next]_vars

(***************************************************************************)
(* Claims about the classifier and the text check                          *)
(***************************************************************************)

\* the first table, in the given order of tiers, that holds the lowered string
RECURSIVE FirstMatch(_, _)
FirstMatch(order, s) ==
    IF order = <<>> THEN None
    ELSE IF Contains(TableOf(Head(order)), s) THEN Head(order)
    ELSE FirstMatch(Tail(order), s)

TierOrders == {o \in [1..3 -> MediaType] : \A i, j \in 1..3 : i # j => o[i] # o[j]}

IsVariantOf(s, t) == \E e \in SeqRange(TableOf(t)) : s \in CaseVariants(e)

\* C10: from_extension answers for every string; every case variant of an
\* entry of a table gets that table's tier, every other string gets none; the
\* three tables are pairwise disjoint, so checking them in any other order
\* gives the same answer.
C10_ClassifyTotalCaseInsensitive ==
    pc = "done" =>
        /\ extResult \in MediaType \cup {None}
        /\ \A t \in MediaType : IsVariantOf(ext, t) => extResult = t
        /\ (\A t \in MediaType : ~IsVariantOf(ext, t)) => extResult = None
        /\ \A t, u \in MediaType :
               t # u => SeqRange(TableOf(t)) \cap SeqRange(TableOf(u)) = {}
        /\ \A o \in TierOrders : FirstMatch(o, to_lowercase(ext)) = extResult

\* a mixed-case spelling of a floppy extension has been classified
C10_Witness == pc = "done" /\ ext = <<"A","d","F">> /\ extResult = Floppy

\* C2 as stated: without a binary signature the content is safe exactly when
\* it is empty or fewer than 10% of its bytes are NUL or control characters
\* other than tab, newline and carriage return.
C2_SafeIffBelowTenPercent ==
    (pc = "done" /\ bytes.readable /\ infer # InferBinary) =>
        (textResult = OkTrue <=>
            (Len(bytes.data) = 0 \/ 10 * non_text_count(bytes.data) < Len(bytes.data)))

(***************************************************************************)
(* Claims about the grouper                                                *)
(***************************************************************************)

InputHasFloppy == \E i \in 1..Len(gInput) : gInput[i].media_type = Floppy

FloppyModeCall == pc = "done" /\ gInput # <<>> /\ ~gForce /\ InputHasFloppy
DiscModeCall   == pc = "done" /\ gInput # <<>> /\ (gForce \/ ~InputHasFloppy)

\* how often the input file with path p occurs among the members of set g
Occurrences(g, p) == Cardinality({k \in 1..Len(g.files) : g.files[k].path = p})

\* the input file that a stable sort by disc number puts first: the earliest
\* encountered among those of the lowest disc number
LowestFirst ==
    CHOOSE i \in 1..Len(gInput) :
        \A j \in 1..Len(gInput) :
            \/ gInput[i].disc_number < gInput[j].disc_number
            \/ gInput[i].disc_number = gInput[j].disc_number /\ i <= j

\* C3: a non-empty input with a floppy file and no force gives exactly one
\* GameSet; it holds every input file exactly once and is named after the
\* lowest-position file, the earliest encountered among ties.
C3_FloppyCollapse ==
    FloppyModeCall =>
        /\ Len(gOutput) = 1
        /\ Len(gOutput[1].files) = Len(gInput)
        /\ \A p \in 1..Len(gInput) :
               /\ Occurrences(gOutput[1], p) = 1
               /\ \A k \in 1..Len(gOutput[1].files) :
                      gOutput[1].files[k].path = p => gOutput[1].files[k] = gInput[p]
        /\ gOutput[1].name = gInput[LowestFirst].base_name

\* three floppy files, the unrelated one encountered first but not lowest
C3_Witness ==
    /\ FloppyModeCall
    /\ Len(gInput) = 3
    /\ gInput[1].base_name = "B" /\ gInput[1].disc_number = 20
    /\ gInput[2].base_name = "A" /\ gInput[2].disc_number = 10
    /\ gInput[3].base_name = "A" /\ gInput[3].disc_number = 10
    /\ gOutput[1].name = "A"

\* C4: in disc mode the GameSets partition the input by base_name: every
\* input file is in exactly one set and once, members carry the name of
\* their set, names are distinct, no set is empty, and there are as many
\* sets as distinct base names.
C4_DiscModePartition ==
    DiscModeCall =>
        /\ \A p \in 1..Len(gInput) :
               /\ Cardinality({i \in 1..Len(gOutput) : Occurrences(gOutput[i], p) > 0}) = 1
               /\ \A i \in 1..Len(gOutput) : Occurrences(gOutput[i], p) <= 1
        /\ \A i \in 1..Len(gOutput) :
               /\ gOutput[i].files # <<>>
               /\ \A k \in 1..Len(gOutput[i].files) :
                      /\ gOutput[i].files[k].base_name = gOutput[i].name
                      /\ gOutput[i].files[k].path \in 1..Len(gInput)
                      /\ gOutput[i].files[k] = gInput[gOutput[i].files[k].path]
        /\ \A i, j \in 1..Len(gOutput) : i # j => gOutput[i].name # gOutput[j].name
        /\ Len(gOutput) = Cardinality({gInput[p].base_name : p \in 1..Len(gInput)})

\* forced disc mode on floppy files whose base names alternate
C4_Witness ==
    /\ DiscModeCall /\ gForce /\ InputHasFloppy
    /\ Len(gInput) = 3
    /\ gInput[1].base_name = "A" /\ gInput[2].base_name = "B"
    /\ gInput[3].base_name = "A"
    /\ gInput[1].disc_number = gInput[2].disc_number
    /\ gInput[2].disc_number = gInput[3].disc_number
    /\ Len(gOutput) = 2

\* C5: in every GameSet, of either mode, members are in non-decreasing order
\* of position and members of equal position keep their input order; the
\* playlist lines of the set follow that order.
C5_MembersSortedStable ==
    pc = "done" =>
        \A i \in 1..Len(gOutput) :
            LET m == gOutput[i].files IN
            /\ \A k, l \in 1..Len(m) :
                   k < l =>
                       /\ m[k].disc_number <= m[l].disc_number
                       /\ m[k].disc_number = m[l].disc_number => m[k].path < m[l].path
            /\ \A k \in 1..Len(m) :
                   /\ playlist_lines(m)[k] = m[k].path
                   /\ gInput[playlist_lines(m)[k]].disc_number = m[k].disc_number

\* a set whose input had a later disc first and two files of equal position
C5_Witness ==
    /\ pc = "done"
    /\ Len(gInput) = 3
    /\ gInput[1].disc_number = 20
    /\ gInput[2].disc_number = 10
    /\ gInput[3].disc_number = 10
    /\ \E i \in 1..Len(gOutput) :
           /\ Len(gOutput[i].files) = 3
           /\ gOutput[i].files[1].path = 2
           /\ gOutput[i].files[2].path = 3
           /\ gOutput[i].files[3].path = 1

(***************************************************************************)
(* Claims about the scanner                                                *)
(***************************************************************************)

Scanned == pc \in {"scanned", "skipped", "done"} /\ scanResult.ok

\* the tier of the extension of entry i, None without extension
TierOfEntry(i) ==
    LET e == dirEntries.entries[i] IN
    IF e.ext = <<>> THEN None ELSE from_extension(e.ext[1])

\* the files of the directory that carry an extension of tier t
FilesOfTier(t) ==
    {i \in 1..Len(dirEntries.entries) :
        dirEntries.entries[i].kind = "file" /\ TierOfEntry(i) = t}

\* those of them whose name is valid UTF-8
NamedFilesOfTier(t) == {i \in FilesOfTier(t) : dirEntries.entries[i].utf8}

ReturnedPaths == {scanResult.files[k].path : k \in 1..Len(scanResult.files)}

\* C6 as stated: the scan returns exactly the files of the highest-priority
\* tier present in the directory, and never a file without a tier.
C6_HighestTierOfAllFiles ==
    Scanned =>
        /\ ReturnedPaths =
               (IF FilesOfTier(Floppy) # {} THEN FilesOfTier(Floppy)
                ELSE IF FilesOfTier(DiscIndex) # {} THEN FilesOfTier(DiscIndex)
                ELSE FilesOfTier(DiscImage))
        /\ \A p \in ReturnedPaths : TierOfEntry(p) # None

\* C6 amended: among the regular files whose name is valid UTF-8, the scan
\* returns exactly those of the highest-priority tier present, each once and
\* with that tier, and never a file without a tier.
C6_HighestTierOfNamedFiles ==
    Scanned =>
        /\ ReturnedPaths =
               (IF NamedFilesOfTier(Floppy) # {} THEN NamedFilesOfTier(Floppy)
                ELSE IF NamedFilesOfTier(DiscIndex) # {} THEN NamedFilesOfTier(DiscIndex)
                ELSE NamedFilesOfTier(DiscImage))
        /\ Cardinality(ReturnedPaths) = Len(scanResult.files)
        /\ \A k \in 1..Len(scanResult.files) :
               /\ scanResult.files[k].media_type = TierOfEntry(scanResult.files[k].path)
               /\ scanResult.files[k].media_type # None
        /\ \A k, l \in 1..Len(scanResult.files) :
               scanResult.files[k].media_type = scanResult.files[l].media_type

\* index files are returned although a directory with a floppy extension and
\* an image file are present
C6_Witness ==
    /\ Scanned
    /\ NamedFilesOfTier(Floppy) = {}
    /\ \E i \in 1..Len(dirEntries.entries) :
           dirEntries.entries[i].kind = "dir" /\ TierOfEntry(i) = Floppy
    /\ NamedFilesOfTier(DiscImage) # {}
    /\ ReturnedPaths # {}
    /\ ReturnedPaths = NamedFilesOfTier(DiscIndex)

GroupedPaths ==
    UNION {{scanGroups[i].files[k].path : k \in 1..Len(scanGroups[i].files)} :
               i \in 1..Len(scanGroups)}

BothFloppyAndIndex ==
    pc = "done" /\ NamedFilesOfTier(Floppy) # {} /\ NamedFilesOfTier(DiscIndex) # {}

\* C7 as stated: with floppy and disc-index files in one directory, a run
\* without force groups only the floppy files, and a run with force groups
\* only the disc-index files; under force floppy files are grouped only when
\* no other tier is present.
C7_ForceGroupsIndexFiles ==
    BothFloppyAndIndex =>
        /\ ~scanForce => GroupedPaths = NamedFilesOfTier(Floppy)
        /\ scanForce => GroupedPaths = NamedFilesOfTier(DiscIndex)
        /\ (scanForce /\ GroupedPaths \cap NamedFilesOfTier(Floppy) # {}) =>
               NamedFilesOfTier(DiscIndex) \cup NamedFilesOfTier(DiscImage) = {}

\* C7 amended: with floppy and disc-index files in one directory, a run
\* groups only the floppy files, with and without force; force changes only
\* how they are grouped: one GameSet per base name instead of one GameSet.
C7_ForceKeepsFloppyFiles ==
    BothFloppyAndIndex =>
        /\ GroupedPaths = NamedFilesOfTier(Floppy)
        /\ ~scanForce => Len(scanGroups) = 1
        /\ scanForce =>
               Len(scanGroups) =
                   Cardinality({dirEntries.entries[i].base_name :
                                    i \in NamedFilesOfTier(Floppy)})

\* a forced run over two floppy files of different titles and an index file
C7_Witness ==
    /\ BothFloppyAndIndex
    /\ scanForce
    /\ Cardinality(NamedFilesOfTier(Floppy)) = 2
    /\ Len(scanGroups) = 2

(***************************************************************************)
(* Claims about a run                                                      *)
(***************************************************************************)

\* the playlist-named files of a directory
M3usOf(dirFiles) == {f \in dirFiles : to_ascii_lowercase(f.ext) = M3U}

\* the files with the .m3u extension, in any letter case, that were there
\* before the run and that is_text_file judges non-text
NonTextBefore(dir) ==
    {f \in M3usOf(fs0[dir]) : is_text_file(f.content, f.sig) = OkFalse}

\* C1: in every run mode a file with the .m3u extension that was there
\* before the run and that is_text_file judges non-text is still there,
\* untouched; a file is missing only if is_text_file judged it text, and
\* playlists are written only into directories whose cleanup succeeded.
C1_NonTextNeverDestroyed ==
    \A dir \in FsDirs :
        /\ \A f \in NonTextBefore(dir) : f \in fs[dir]
        /\ \A f \in fs0[dir] \ fs[dir] :
               /\ to_ascii_lowercase(f.ext) = M3U
               /\ is_text_file(f.content, f.sig) = OkTrue
        /\ (\E f \in fs[dir] : f.origin = "run") => dir \in cleaned

\* a binary old.M3U was found after a text A.m3u had been removed, and the
\* run went on to write a playlist elsewhere
C1_Witness ==
    \E dir \in FsDirs :
        /\ \E f \in NonTextBefore(dir) : f.stem = "old" /\ f \in fs[dir]
        /\ \E f \in fs0[dir] \ fs[dir] : f.stem = "A"
        /\ \E other \in FsDirs : \E f \in fs[other] : f.origin = "run"

\* the directories whose cleanup was refused: the warning of normal mode
\* without destination, or the error that ended the run
Refused ==
    {w.dir : w \in {x \in warnings : x.cause = CleanRefused}}
        \cup (IF errorMsg = CleanRefused
              THEN {IF cli.children THEN m3u_dir ELSE Dest}
              ELSE {})

\* C8 as stated: a directory whose cleanup was refused has exactly the .m3u
\* files it had before the run: none was deleted, none is written later.
C8_RefusedDirectoryUntouched ==
    \A dir \in Refused : M3usOf(fs[dir]) = M3usOf(fs0[dir])

\* C9 as stated: a failure to scan a directory, to read a candidate
\* playlist or to write a playlist does not end the run with exit code 1;
\* the run goes on to the remaining directories.
C9_DirectoryFailureNeverAborts ==
    exit = 1 => errorMsg \notin {"scan", CleanReadErr, "write"}

(***************************************************************************)
(* Claims about the number parser                                          *)
(***************************************************************************)

\* C11: for the k-th uppercase letter, the letter alone resolves to k, and a
\* locator followed by the letter resolves to k, as the same locator
\* followed by the digits of k does; a lowercase letter, alone or behind a
\* locator, resolves to nothing; a number word or special resolves to its
\* value in lower case, in upper case and capitalized.
C11_LetterEqualsDigit ==
    pc = "done" =>
        /\ \A k \in 1..26 :
               /\ token = <<UpperLetters[k]>> => number = <<U32(k)>>
               /\ token = <<LowerLetters[k]>> => number = <<>>
               /\ \A loc \in Locators :
                      /\ token = loc \o Space \o <<UpperLetters[k]>> =>
                             /\ number = <<U32(k)>>
                             /\ extract_number(loc \o Space \o DecimalOf(k)) = number
                      /\ token = loc \o Space \o DecimalOf(k) => number = <<U32(k)>>
                      /\ token = loc \o Space \o <<LowerLetters[k]>> => number = <<>>
        /\ \A i \in 1..Len(NUMERALS) :
               token \in {NUMERALS[i][1], ToUpper(NUMERALS[i][1]),
                          Capitalize(NUMERALS[i][1])}
                   => number = <<U32(NUMERALS[i][2])>>

\* "Disk Z" has been resolved to 26
C11_Witness ==
    /\ pc = "done"
    /\ token = <<"D","i","s","k">> \o Space \o <<"Z">>
    /\ number = <<U32(26)>>

(***************************************************************************)
(* Claims about the grouper and the order of its input                     *)
(***************************************************************************)

\* the ways to reorder n files
Reorderings(n) ==
    {o \in [1..n -> 1..n] : \A i, j \in 1..n : i # j => o[i] # o[j]}

\* the same files, encountered in the order o
Reordered(files, o) == [i \in 1..Len(files) |-> files[o[i]]]

\* C12 as stated: group_files returns the same GameSets, with the same names
\* and the same order of members, for every order in which the same files
\* are handed to it, files of equal position included.
C12_PermutationInvariant ==
    pc = "done" =>
        \A o \in Reorderings(Len(gInput)) :
            group_files(Reordered(gInput, o), gForce) = gOutput

\* input file p is one for which no locator or value was resolved: its
\* position is 0 and its base_name is its stem
Unnumbered(p) == gInput[p].disc_number = 0

\* the input files that have the base_name of input file p
SameBaseName(p) ==
    {q \in 1..Len(gInput) : gInput[q].base_name = gInput[p].base_name}

MemberPaths(g) == {g.files[k].path : k \in 1..Len(g.files)}

\* C13 as stated: a file of position 0 whose base_name is its stem is the
\* only member of its GameSet, whatever the other files are and whether or
\* not force is set.
C13_UnnumberedFileAlone ==
    pc = "done" =>
        \A p \in 1..Len(gInput) :
            Unnumbered(p) =>
                \E i \in 1..Len(gOutput) : gOutput[i].files = <<gInput[p]>>

\* C13 amended: in disc mode a file of position 0 is in the GameSet named
\* after its base_name together with exactly the input files of that
\* base_name, so it is the only member exactly when no other input file
\* shares its base_name; in floppy mode it is a member of the single GameSet
\* that holds every input file.
C13_UnnumberedFileAloneUnlessShared ==
    pc = "done" =>
        \A p \in 1..Len(gInput) :
            Unnumbered(p) =>
                /\ DiscModeCall =>
                       \E i \in 1..Len(gOutput) :
                           /\ gOutput[i].name = gInput[p].base_name
                           /\ MemberPaths(gOutput[i]) = SameBaseName(p)
                           /\ Len(gOutput[i].files) = Cardinality(SameBaseName(p))
                           /\ SameBaseName(p) = {p} <=> gOutput[i].files = <<gInput[p]>>
                           /\ gOutput[i].files[1].disc_number = 0
                /\ FloppyModeCall =>
                       /\ Len(gOutput) = 1
                       /\ p \in MemberPaths(gOutput[1])
                       /\ Len(gOutput[1].files) = Len(gInput)

\* forced disc mode: an unnumbered floppy file "B" is alone in its set
\* beside two files of title "A"
C13_Witness ==
    /\ DiscModeCall /\ gForce /\ InputHasFloppy
    /\ Len(gInput) = 3
    /\ Unnumbered(1) /\ gInput[1].base_name = "B"
    /\ gInput[2].base_name = "A" /\ gInput[3].base_name = "A"
    /\ \E i \in 1..Len(gOutput) : gOutput[i].files = <<gInput[1]>>

(***************************************************************************)
(* Claims about digit runs and words in a value token                      *)
(***************************************************************************)

HasDigit(s) == \E i \in 1..Len(s) : IsDigit(s[i])

\* the base-10 value of a string of digits, whatever its size, as
\* hi * 65536 + lo
RECURSIVE DecimalValue(_)
DecimalValue(ds) ==
    IF ds = <<>> THEN [hi |-> 0, lo |-> 0]
    ELSE LET front == DecimalValue(SubSeq(ds, 1, Len(ds) - 1))
             low   == front.lo * 10 + DigitValue(ds[Len(ds)])
         IN  [hi |-> front.hi * 10 + low \div 65536, lo |-> low % 65536]

\* C14 as stated: a token with a digit resolves to the base-10 value of its
\* leftmost longest digit run, leading zeros ignored, whatever words or
\* letters stand beside it and whatever the size of the value.
C14_DigitRunValue ==
    (pc = "done" /\ HasDigit(token)) =>
        number = << DecimalValue(NUMBER_REGEX_find(token)[1]) >>

\* the places of token s where a word starts
WordStarts(s) ==
    {i \in 1..Len(s) : ~IsWhitespace(s[i]) /\ (i = 1 \/ IsWhitespace(s[i - 1]))}

\* the word of s that starts at place i
WordAt(s, i) ==
    SubSeq(s, i, CHOOSE j \in i..Len(s) :
                     /\ \A k \in i..j : ~IsWhitespace(s[k])
                     /\ j = Len(s) \/ IsWhitespace(s[j + 1]))

\* the n-th word of s
NthWord(s, n) ==
    WordAt(s, CHOOSE i \in WordStarts(s) :
                  Cardinality({j \in WordStarts(s) : j < i}) = n - 1)

\* what the words the tokens are made of stand for
Meaning(w) ==
    CASE w = <<"T","w","o">>     -> <<U32(2)>>
      [] w = <<"b","o","o","t">> -> <<U32(0)>>
      [] w = <<"B">>             -> <<U32(2)>>
      [] OTHER                   -> <<>>

\* C15: a token without digits resolves to what its second word resolves
\* to when it has two or more words, whatever its first and third word are,
\* to what its only word resolves to when it has one, and to nothing when it
\* has none.
C15_SecondWordOnly ==
    (pc = "done" /\ ~HasDigit(token)) =>
        LET n == Cardinality(WordStarts(token)) IN
        /\ n = 0 => number = <<>>
        /\ n = 1 => number = word_to_number(NthWord(token, 1))
        /\ n >= 2 => number = word_to_number(NthWord(token, 2))
        /\ (n >= 1 /\ \A k \in 1..n : NthWord(token, k) \in ParseWords) =>
               number = Meaning(NthWord(token, IF n = 1 THEN 1 ELSE 2))

\* "Two hello B": the second word does not resolve, the first and the third
\* would
C15_Witness ==
    /\ pc = "done"
    /\ token = <<"T","w","o">> \o Space \o <<"h","e","l","l","o">> \o Space \o <<"B">>
    /\ number = <<>>

(***************************************************************************)
(* Claims about the playlists a run writes                                 *)
(***************************************************************************)

\* the files of a directory that the run created
OwnPlaylists(dir) == {f \in fs[dir] : f.origin = "run"}

\* C16 as stated: every playlist the run has written is judged text by
\* is_text_file, so that the cleanup a second run starts with accepts and
\* removes the playlists of the first run in every directory.
C16_RerunAcceptsOwnPlaylists ==
    \A dir \in FsDirs :
        /\ \A f \in OwnPlaylists(dir) : is_text_file(f.content, f.sig) = OkTrue
        /\ \A order \in ReadDirOrders(OwnPlaylists(dir)) :
               check_and_clean_m3us(OwnPlaylists(dir), order).result = CleanOk

\* C17: in every run mode a directory holds a playlist of the run only
\* after its cleanup has succeeded, and from then on every file with the
\* .m3u extension in it, in any letter case, was written by the run: none
\* from before the run is left beside the new ones.
C17_NoStalePlaylistBesideNew ==
    \A dir \in FsDirs :
        /\ OwnPlaylists(dir) # {} => dir \in cleaned
        /\ dir \in cleaned => \A f \in M3usOf(fs[dir]) : f.origin = "run"

\* a run ended well after it removed an old.M3U and wrote A.m3u in its place
C17_Witness ==
    /\ exit = 0
    /\ \E dir \in FsDirs :
           /\ \E f \in fs0[dir] : f.stem = "old" /\ f \notin fs[dir]
           /\ \E g \in OwnPlaylists(dir) : g.stem = "A"
           /\ M3usOf(fs[dir]) = OwnPlaylists(dir)

\* the playlist files the run created, each with its directory
CreatedPlaylists == UNION {{<<dir, f.stem>> : f \in OwnPlaylists(dir)} : dir \in FsDirs}

\* C18 as stated: at the end of a successful run there are as many playlist
\* files of the run as the run reports to have created, in every mode: no
\* playlist was overwritten by the playlist of a later GameSet.
C18_OnePlaylistPerGameSet ==
    exit = 0 => Cardinality(CreatedPlaylists) = total_m3us

====
